---- MODULE Spec2Model ----
(***************************************************************************)
(* The preset store of the environment-variable configuration manager:     *)
(* ConfigPreset / ConfigManager of env_manager_darkmode.py and             *)
(* env_manager_pure_pyqt6.py (the two classes are the same code but for    *)
(* the name of the default preset).                                        *)
(*                                                                         *)
(* Text is modelled as a sequence of units.  A unit is either one of the   *)
(* characters JSON treats specially (QUOTE, BSLASH, NL, the structural     *)
(* characters, a blank) or a run of characters that need no escaping and   *)
(* are no JSON syntax ("deepseek-chat").  A Python value is a record       *)
(* [t, s, a]: t the type, s the units of a str, a the elements of a list   *)
(* or the members of a dict.                                               *)
(***************************************************************************)
EXTENDS Integers, Sequences, FiniteSets, TLC

(* ----------------------------- bounds ---------------------------------- *)
\* number of calls (process start and exit included) in one behaviour
MaxOps == 4
\* number of I/O failures (file or registry) injected in one behaviour
MaxFaults == 1

(* ------------------------------ text ----------------------------------- *)
QUOTE == "\""
BSLASH == "\\"
NL == "\n"
SP == " "
IND == "  "
Ws == {NL, SP, IND, "\t", "\r"}

(* --------------------------- Python values ----------------------------- *)
Str(s) == [t |-> "str", s |-> s, a |-> <<>>]
Null == [t |-> "null", s |-> <<>>, a |-> <<>>]
List(a) == [t |-> "list", s |-> <<>>, a |-> a]
Dict(m) == [t |-> "dict", s |-> <<>>, a |-> m]
\* one key/value pair of a dict; the key is a str
Member(k, v) == [t |-> "member", s |-> k, a |-> <<v>>]

(* ----------------------- json.dump(indent=2, ensure_ascii=False) ------- *)
\* py_encode_basestring: only the quote, the backslash and control
\* characters are escaped; non-ASCII text is written literally
\* EscapeUnit without the escape of the quote
EscapeUnit_raw_quote(u) ==
  IF u = BSLASH THEN <<BSLASH, BSLASH>>
  ELSE IF u = NL THEN <<BSLASH, "n">>
  ELSE <<u>>

EscapeUnit(u) ==
  IF u = QUOTE THEN <<BSLASH, QUOTE>>
  ELSE IF u = BSLASH THEN <<BSLASH, BSLASH>>
  ELSE IF u = NL THEN <<BSLASH, "n">>
  ELSE <<u>>

RECURSIVE Escape(_)
Escape(s) == IF s = <<>> THEN <<>> ELSE EscapeUnit(Head(s)) \o Escape(Tail(s))

encode_basestring(s) == <<QUOTE>> \o Escape(s) \o <<QUOTE>>

RECURSIVE Indent(_)
Indent(n) == IF n = 0 THEN <<>> ELSE <<IND>> \o Indent(n - 1)

RECURSIVE json_dumps(_, _)
RECURSIVE DumpItems(_, _)
\* the items of a non-empty list or dict, each on a line of its own
DumpItems(items, level) ==
  LET it == Head(items)
      one == IF it.t = "member"
             THEN encode_basestring(it.s) \o <<":", SP>> \o json_dumps(it.a[1], level)
             ELSE json_dumps(it, level)
  IN  <<NL>> \o Indent(level) \o one \o
      (IF Len(items) = 1 THEN <<>> ELSE <<",">> \o DumpItems(Tail(items), level))

json_dumps(v, level) ==
  IF v.t = "str" THEN encode_basestring(v.s)
  ELSE IF v.t = "null" THEN <<"null">>
  ELSE IF v.t = "list"
       THEN IF v.a = <<>> THEN <<"[", "]">>
            ELSE <<"[">> \o DumpItems(v.a, level + 1) \o <<NL>> \o Indent(level) \o <<"]">>
  ELSE IF v.a = <<>> THEN <<"{", "}">>
       ELSE <<"{">> \o DumpItems(v.a, level + 1) \o <<NL>> \o Indent(level) \o <<"}">>

(* ------------------------------ json.load ------------------------------ *)
Fail == [ok |-> FALSE, v |-> Null, next |-> 0]
Done(v, next) == [ok |-> TRUE, v |-> v, next |-> next]

\* first position at or after i that holds no whitespace (Len(text)+1 at the end)
RECURSIVE SkipWs(_, _)
SkipWs(text, i) ==
  IF i <= Len(text) /\ text[i] \in Ws THEN SkipWs(text, i + 1) ELSE i

At(text, i) == IF i <= Len(text) THEN text[i] ELSE "<eof>"

\* py_scanstring from the unit after the opening quote
RECURSIVE ScanString(_, _, _)
ScanString(text, i, acc) ==
  IF i > Len(text) THEN Fail
  ELSE IF text[i] = QUOTE THEN Done(Str(acc), i + 1)
  ELSE IF text[i] = NL THEN Fail
  ELSE IF text[i] = BSLASH
       THEN IF At(text, i + 1) \in {QUOTE, BSLASH, "/"}
            THEN ScanString(text, i + 2, Append(acc, text[i + 1]))
            ELSE IF At(text, i + 1) = "n"
                 THEN ScanString(text, i + 2, Append(acc, NL))
                 ELSE Fail
  ELSE ScanString(text, i + 1, Append(acc, text[i]))

\* dict(pairs): a repeated key keeps its first position and takes the last value
PutMember(m, k, v) ==
  IF \E j \in 1..Len(m) : m[j].s = k
  THEN [j \in 1..Len(m) |-> IF m[j].s = k THEN Member(k, v) ELSE m[j]]
  ELSE Append(m, Member(k, v))

RECURSIVE ParseValue(_, _)
RECURSIVE ParseElems(_, _, _)
RECURSIVE ParseMembers(_, _, _)

\* the elements of a list, i at the first unit of an element
ParseElems(text, i, acc) ==
  LET e == ParseValue(text, i)
      k == SkipWs(text, e.next)
  IN  IF ~e.ok THEN Fail
      ELSE IF At(text, k) = "," THEN ParseElems(text, SkipWs(text, k + 1), Append(acc, e.v))
      ELSE IF At(text, k) = "]" THEN Done(List(Append(acc, e.v)), k + 1)
      ELSE Fail

\* the members of a dict, i at the opening quote of a key
ParseMembers(text, i, acc) ==
  IF At(text, i) # QUOTE THEN Fail
  ELSE
    LET key == ScanString(text, i + 1, <<>>)
        c == SkipWs(text, key.next)
        val == ParseValue(text, SkipWs(text, c + 1))
        k == SkipWs(text, val.next)
    IN  IF ~key.ok THEN Fail
        ELSE IF At(text, c) # ":" THEN Fail
        ELSE IF ~val.ok THEN Fail
        ELSE IF At(text, k) = ","
             THEN ParseMembers(text, SkipWs(text, k + 1), PutMember(acc, key.v.s, val.v))
        ELSE IF At(text, k) = "}"
             THEN Done(Dict(PutMember(acc, key.v.s, val.v)), k + 1)
        ELSE Fail

\* scan_once
ParseValue(text, i) ==
  LET c == At(text, i) IN
  IF c = QUOTE THEN ScanString(text, i + 1, <<>>)
  ELSE IF c = "null" THEN Done(Null, i + 1)
  ELSE IF c = "["
       THEN LET k == SkipWs(text, i + 1)
            IN  IF At(text, k) = "]" THEN Done(List(<<>>), k + 1)
                ELSE ParseElems(text, k, <<>>)
  ELSE IF c = "{"
       THEN LET k == SkipWs(text, i + 1)
            IN  IF At(text, k) = "}" THEN Done(Dict(<<>>), k + 1)
                ELSE ParseMembers(text, k, <<>>)
  ELSE Fail

\* JSONDecoder.decode: one value, whitespace around it, nothing after it
json_loads(text) ==
  LET r == ParseValue(text, SkipWs(text, 1))
  IN  IF ~r.ok THEN Fail
      ELSE IF SkipWs(text, r.next) # Len(text) + 1 THEN Fail
      ELSE r

(* ---------------------------- ConfigPreset ----------------------------- *)
Key(k) == <<k>>
FieldNames == <<"name", "auth_token", "base_url", "model", "small_fast_model">>

\* ConfigPreset.__init__
ConfigPreset(name, auth_token, base_url, model, small_fast_model) ==
  [name |-> name, auth_token |-> auth_token, base_url |-> base_url,
   model |-> model, small_fast_model |-> small_fast_model]

\* to_dict that writes a sixth key
to_dict_tagged(p) ==
  Dict(<<Member(Key("name"), p.name),
         Member(Key("auth_token"), p.auth_token),
         Member(Key("base_url"), p.base_url),
         Member(Key("model"), p.model),
         Member(Key("small_fast_model"), p.small_fast_model),
         Member(Key("id"), p.name)>>)

\* ConfigPreset.to_dict
to_dict(p) ==
  Dict(<<Member(Key("name"), p.name),
         Member(Key("auth_token"), p.auth_token),
         Member(Key("base_url"), p.base_url),
         Member(Key("model"), p.model),
         Member(Key("small_fast_model"), p.small_fast_model)>>)

HasKey(data, k) == data.t = "dict" /\ \E j \in 1..Len(data.a) : data.a[j].s = Key(k)
\* data[k] of a dict that has the key
GetItem(data, k) == data.a[CHOOSE j \in 1..Len(data.a) : data.a[j].s = Key(k)].a[1]

\* ConfigPreset.from_dict: subscripting anything but a dict with a str, or a
\* dict without the key, raises (TypeError, KeyError)
from_dict(data) ==
  IF \A j \in 1..5 : HasKey(data, FieldNames[j])
  THEN [ok |-> TRUE,
        preset |-> ConfigPreset(GetItem(data, "name"), GetItem(data, "auth_token"),
                                GetItem(data, "base_url"), GetItem(data, "model"),
                                GetItem(data, "small_fast_model"))]
  ELSE [ok |-> FALSE, preset |-> ConfigPreset(Null, Null, Null, Null, Null)]

(* ---------------------------- ConfigManager ---------------------------- *)
\* the hard-coded default of _load_presets; the two front ends name it differently
default_presets(fe) ==
  <<ConfigPreset(
      Str(IF fe = "darkmode" THEN <<"U+6D4B", "U+8BD5">>
                             ELSE <<"U+6D4B", "U+8BD5", "U+914D", "U+7F6E">>),
      Str(<<"sk-6jwTXRuJ02L5rvKEXa8uiSjErD5sGJwdfIi9r6tohQKgGU4g">>),
      Str(<<"https://api.test.com/anthropic">>),
      Str(<<"deepseek-chat">>),
      Str(<<"deepseek-chat">>))>>

\* the backing file env_config.json: whether it exists, and its text
NoFile == [exists |-> FALSE, text |-> <<>>]
FileOf(text) == [exists |-> TRUE, text |-> text]

\* what one call of open(..., 'w') + json.dump can do to the file
SaveOutcomes == {"ok", "open", "cut"}

\* _save_presets that writes a temporary file and renames it over the backing
\* file: a write that fails leaves the backing file as it was
save_presets_atomic(file, ps, io) ==
  LET text == json_dumps(List([j \in 1..Len(ps) |-> to_dict(ps[j])]), 0)
  IN  IF io = "ok" THEN [file |-> FileOf(text), raised |-> FALSE]
      ELSE [file |-> file, raised |-> TRUE]

\* _save_presets that does not touch a backing file it cannot decode
save_presets_guarded(file, ps, io) ==
  LET text == json_dumps(List([j \in 1..Len(ps) |-> to_dict(ps[j])]), 0)
  IN  IF file.exists /\ ~json_loads(file.text).ok THEN [file |-> file, raised |-> FALSE]
      ELSE IF io = "ok" THEN [file |-> FileOf(text), raised |-> FALSE]
      ELSE IF io = "open" THEN [file |-> file, raised |-> TRUE]
      ELSE [file |-> FileOf(SubSeq(text, 1, Len(text) \div 2)), raised |-> TRUE]

\* _save_presets that opens the file with 'a'
save_presets_append(file, ps, io) ==
  LET text == json_dumps(List([j \in 1..Len(ps) |-> to_dict(ps[j])]), 0)
  IN  IF io = "ok" THEN [file |-> FileOf(file.text \o text), raised |-> FALSE]
      ELSE [file |-> file, raised |-> TRUE]

\* ConfigManager._save_presets.  open(...,'w') truncates, json.dump writes the
\* text; an OSError leaves the file untouched ("open") or with a prefix of the
\* text ("cut"), and is not caught.
save_presets(file, ps, io) ==
  LET text == json_dumps(List([j \in 1..Len(ps) |-> to_dict(ps[j])]), 0)
  IN  IF io = "ok" THEN [file |-> FileOf(text), raised |-> FALSE]
      ELSE IF io = "open" THEN [file |-> file, raised |-> TRUE]
      ELSE [file |-> FileOf(SubSeq(text, 1, Len(text) \div 2)), raised |-> TRUE]

\* `for preset in data`: a list yields its elements, a dict its keys, a str
\* its characters; None is not iterable
Iterate(data) ==
  IF data.t = "list" THEN [ok |-> TRUE, items |-> data.a]
  ELSE IF data.t = "dict"
       THEN [ok |-> TRUE, items |-> [j \in 1..Len(data.a) |-> Str(data.a[j].s)]]
  ELSE IF data.t = "str"
       THEN [ok |-> TRUE, items |-> [j \in 1..Len(data.s) |-> Str(<<data.s[j]>>)]]
  ELSE [ok |-> FALSE, items |-> <<>>]

\* _load_presets that returns the default for a missing file without saving it
load_presets_nosave(file, fe, rd, io) ==
  IF file.exists
  THEN LET data == json_loads(file.text)
           it == Iterate(data.v)
           ps == [j \in 1..Len(it.items) |-> from_dict(it.items[j])]
       IN  IF rd = "ok" /\ data.ok /\ it.ok /\ \A j \in 1..Len(ps) : ps[j].ok
           THEN [presets |-> [j \in 1..Len(ps) |-> ps[j].preset],
                 file |-> file, raised |-> FALSE]
           ELSE [presets |-> default_presets(fe), file |-> file, raised |-> FALSE]
  ELSE [presets |-> default_presets(fe), file |-> file, raised |-> FALSE]

\* _load_presets that takes an empty collection for a first run
load_presets_or_default(file, fe, rd, io) ==
  IF file.exists
  THEN LET data == json_loads(file.text)
           it == Iterate(data.v)
           ps == [j \in 1..Len(it.items) |-> from_dict(it.items[j])]
       IN  IF rd = "ok" /\ data.ok /\ it.ok /\ ps # <<>> /\ \A j \in 1..Len(ps) : ps[j].ok
           THEN [presets |-> [j \in 1..Len(ps) |-> ps[j].preset],
                 file |-> file, raised |-> FALSE]
           ELSE [presets |-> default_presets(fe), file |-> file, raised |-> FALSE]
  ELSE LET sv == save_presets(file, default_presets(fe), io)
       IN  [presets |-> IF sv.raised THEN <<>> ELSE default_presets(fe),
            file |-> sv.file, raised |-> sv.raised]

\* _load_presets that saves the default in the except branch too
load_presets_persist(file, fe, rd, io) ==
  LET sv == save_presets(file, default_presets(fe), "ok")
      data == json_loads(file.text)
      it == Iterate(data.v)
      ps == [j \in 1..Len(it.items) |-> from_dict(it.items[j])]
  IN  IF file.exists /\ rd = "ok" /\ data.ok /\ it.ok /\ \A j \in 1..Len(ps) : ps[j].ok
      THEN [presets |-> [j \in 1..Len(ps) |-> ps[j].preset],
            file |-> file, raised |-> FALSE]
      ELSE [presets |-> default_presets(fe), file |-> sv.file, raised |-> FALSE]

\* ConfigManager._load_presets.  rd is the outcome of open(...,'r') + read,
\* io the outcome of the save of the missing-file branch.
load_presets(file, fe, rd, io) ==
  IF file.exists
  THEN LET data == json_loads(file.text)
           it == Iterate(data.v)
           ps == [j \in 1..Len(it.items) |-> from_dict(it.items[j])]
       IN  IF rd = "ok" /\ data.ok /\ it.ok /\ \A j \in 1..Len(ps) : ps[j].ok
           THEN [presets |-> [j \in 1..Len(ps) |-> ps[j].preset],
                 file |-> file, raised |-> FALSE]
           ELSE [presets |-> default_presets(fe), file |-> file, raised |-> FALSE]
  ELSE LET sv == save_presets(file, default_presets(fe), io)
       IN  [presets |-> IF sv.raised THEN <<>> ELSE default_presets(fe),
            file |-> sv.file, raised |-> sv.raised]

\* add_preset with the save wrapped in try/except
add_preset_caught(presets, file, preset, io) ==
  LET ps == Append(presets, preset)
      sv == save_presets(file, ps, io)
  IN  [presets |-> ps, file |-> sv.file, raised |-> FALSE]

\* add_preset that replaces the first preset of the same name, if there is one
add_preset_upsert(presets, file, preset, io) ==
  LET ps == IF \E j \in 1..Len(presets) : presets[j].name = preset.name
            THEN [j \in 1..Len(presets) |->
                    IF j = CHOOSE k \in 1..Len(presets) :
                              /\ presets[k].name = preset.name
                              /\ \A i \in 1..(k - 1) : presets[i].name # preset.name
                    THEN preset ELSE presets[j]]
            ELSE Append(presets, preset)
      sv == save_presets(file, ps, io)
  IN  [presets |-> ps, file |-> sv.file, raised |-> sv.raised]

\* add_preset that takes the preset out again when the save raises
add_preset_rollback(presets, file, preset, io) ==
  LET sv == save_presets(file, Append(presets, preset), io)
  IN  [presets |-> IF sv.raised THEN presets ELSE Append(presets, preset),
       file |-> sv.file, raised |-> sv.raised]

\* add_preset that saves before it appends
add_preset_save_first(presets, file, preset, io) ==
  LET sv == save_presets(file, presets, io)
  IN  [presets |-> Append(presets, preset), file |-> sv.file, raised |-> sv.raised]

\* add_preset that reads the backing file again before it appends
add_preset_reload(presets, file, preset, io) ==
  LET ps == Append(IF file.exists
                   THEN load_presets(file, "darkmode", "ok", "ok").presets
                   ELSE presets, preset)
      sv == save_presets(file, ps, io)
  IN  [presets |-> ps, file |-> sv.file, raised |-> sv.raised]

\* ConfigManager.add_preset
add_preset(presets, file, preset, io) ==
  LET ps == Append(presets, preset)
      sv == save_presets(file, ps, io)
  IN  [presets |-> ps, file |-> sv.file, raised |-> sv.raised]

\* removal that fills the hole with the last element
Pop_swap(ps, index) ==
  [j \in 1..(Len(ps) - 1) |-> IF j = index + 1 THEN ps[Len(ps)] ELSE ps[j]]

\* list.pop() in place of list.pop(index)
Pop_last(ps, index) == SubSeq(ps, 1, Len(ps) - 1)

\* list.pop(index) for 0 <= index < len
Pop(ps, index) == SubSeq(ps, 1, index) \o SubSeq(ps, index + 2, Len(ps))

\* delete_preset with the guard `index < len(self.presets)`: a negative index
\* counts from the end
delete_preset_negative(presets, file, index, io) ==
  IF index < Len(presets) /\ Len(presets) + index >= 0
  THEN LET ps == Pop(presets, IF index < 0 THEN Len(presets) + index ELSE index)
           sv == save_presets(file, ps, io)
       IN  [presets |-> ps, file |-> sv.file, raised |-> sv.raised]
  ELSE [presets |-> presets, file |-> file, raised |-> FALSE]

\* ConfigManager.delete_preset
delete_preset(presets, file, index, io) ==
  IF 0 <= index /\ index < Len(presets)
  THEN LET ps == Pop(presets, index)
           sv == save_presets(file, ps, io)
       IN  [presets |-> ps, file |-> sv.file, raised |-> sv.raised]
  ELSE [presets |-> presets, file |-> file, raised |-> FALSE]

(* ----------------------------- environment ----------------------------- *)
Unset == [t |-> "unset", s |-> <<>>, a |-> <<>>]
\* the variables apply_preset sets, in the order it sets them
AnthropicNames == <<"ANTHROPIC_AUTH_TOKEN", "ANTHROPIC_BASE_URL",
                    "ANTHROPIC_MODEL", "ANTHROPIC_SMALL_FAST_MODEL">>
\* the tracked variables: those four and one that apply_preset has no business with
EnvNames == {AnthropicNames[j] : j \in 1..4} \cup {"PATH"}
\* the two model fields taken for each other
FieldOf_swapped(p, j) ==
  IF j = 1 THEN p.auth_token ELSE IF j = 2 THEN p.base_url
  ELSE IF j = 3 THEN p.small_fast_model ELSE p.model

\* the value apply_preset gives to the j-th name
FieldOf(p, j) ==
  IF j = 1 THEN p.auth_token ELSE IF j = 2 THEN p.base_url
  ELSE IF j = 3 THEN p.model ELSE p.small_fast_model

\* what the winreg block can do: all four values written, OpenKey raises, or
\* the k-th SetValueEx raises
RegOutcomes == {"ok", "open", "set1", "set2", "set3", "set4"}
\* number of SetValueEx calls that completed
Written(out) ==
  IF out = "ok" THEN 4 ELSE IF out = "set4" THEN 3 ELSE IF out = "set3" THEN 2
  ELSE IF out = "set2" THEN 1 ELSE 0

\* apply_preset that copies the fast model from os.environ['ANTHROPIC_MODEL']
\* as it was on entry
apply_preset_stale(environ, registry, platform, preset, out) ==
  [environ |-> [n \in EnvNames |->
                  IF n = "ANTHROPIC_SMALL_FAST_MODEL" THEN environ["ANTHROPIC_MODEL"]
                  ELSE IF \E j \in 1..4 : AnthropicNames[j] = n
                  THEN FieldOf(preset, CHOOSE j \in 1..4 : AnthropicNames[j] = n)
                  ELSE environ[n]],
   registry |-> [n \in EnvNames |->
                  IF platform = "win32" /\ \E j \in 1..Written(out) : AnthropicNames[j] = n
                  THEN FieldOf(preset, CHOOSE j \in 1..4 : AnthropicNames[j] = n)
                  ELSE registry[n]],
   raised |-> FALSE,
   warned |-> (platform = "win32" /\ out # "ok")]

\* apply_preset without the test of sys.platform
apply_preset_everywhere(environ, registry, platform, preset, out) ==
  [environ |-> [n \in EnvNames |->
                  IF \E j \in 1..4 : AnthropicNames[j] = n
                  THEN FieldOf(preset, CHOOSE j \in 1..4 : AnthropicNames[j] = n)
                  ELSE environ[n]],
   registry |-> [n \in EnvNames |->
                  IF \E j \in 1..Written(out) : AnthropicNames[j] = n
                  THEN FieldOf(preset, CHOOSE j \in 1..4 : AnthropicNames[j] = n)
                  ELSE registry[n]],
   raised |-> FALSE,
   warned |-> (out # "ok")]

\* apply_preset without the try/except around the winreg block
apply_preset_uncaught(environ, registry, platform, preset, out) ==
  [environ |-> [n \in EnvNames |->
                  IF \E j \in 1..4 : AnthropicNames[j] = n
                  THEN FieldOf(preset, CHOOSE j \in 1..4 : AnthropicNames[j] = n)
                  ELSE environ[n]],
   registry |-> [n \in EnvNames |->
                  IF platform = "win32" /\ \E j \in 1..Written(out) : AnthropicNames[j] = n
                  THEN FieldOf(preset, CHOOSE j \in 1..4 : AnthropicNames[j] = n)
                  ELSE registry[n]],
   raised |-> (platform = "win32" /\ out # "ok"),
   warned |-> FALSE]

\* ConfigManager.apply_preset
\* apply_preset that puts the registry back as it was when a write fails
apply_preset_rollback(environ, registry, platform, preset, out) ==
  [environ |-> [n \in EnvNames |->
                  IF \E j \in 1..4 : AnthropicNames[j] = n
                  THEN FieldOf(preset, CHOOSE j \in 1..4 : AnthropicNames[j] = n)
                  ELSE environ[n]],
   registry |-> [n \in EnvNames |->
                  IF platform = "win32" /\ out = "ok" /\ \E j \in 1..4 : AnthropicNames[j] = n
                  THEN FieldOf(preset, CHOOSE j \in 1..4 : AnthropicNames[j] = n)
                  ELSE registry[n]],
   raised |-> FALSE,
   warned |-> (platform = "win32" /\ out # "ok")]

apply_preset(environ, registry, platform, preset, out) ==
  [environ |-> [n \in EnvNames |->
                  IF \E j \in 1..4 : AnthropicNames[j] = n
                  THEN FieldOf(preset, CHOOSE j \in 1..4 : AnthropicNames[j] = n)
                  ELSE environ[n]],
   registry |-> [n \in EnvNames |->
                  IF platform = "win32" /\ \E j \in 1..Written(out) : AnthropicNames[j] = n
                  THEN FieldOf(preset, CHOOSE j \in 1..4 : AnthropicNames[j] = n)
                  ELSE registry[n]],
   raised |-> FALSE,
   warned |-> (platform = "win32" /\ out # "ok")]

(* ------------------------------- inputs -------------------------------- *)
\* presets a caller hands to add_preset and apply_preset
Staging ==
  ConfigPreset(Str(<<"staging">>), Str(<<"tok">>), Str(<<"https://x">>),
               Str(<<"m1">>), Str(<<"m2">>))
\* text that json.dump has to escape, text that looks like JSON syntax, non-ASCII text
Tricky ==
  ConfigPreset(Str(<<"a", QUOTE, "b">>), Str(<<BSLASH, "n">>), Str(<<"[", NL, "]">>),
               Str(<<"U+6D4B">>), Str(<<"{", ",", ":", "}", BSLASH>>))
FormPresets == {Staging, Tricky}

\* "k":"v" as some other writer of the file would put it
KV(k, v) == <<QUOTE, k, QUOTE, ":", QUOTE>> \o v \o <<QUOTE>>
\* a preset file written by hand: no indentation, keys in another order, \/ escapes;
\* its preset has the name of Staging and none of its other values
LegacyText ==
  <<"[", "{">> \o KV("model", <<"m0">>) \o <<",">>
  \o KV("name", <<"staging">>) \o <<",">>
  \o KV("base_url", <<"http:", BSLASH, "/", BSLASH, "/", "h">>) \o <<",", SP>>
  \o KV("small_fast_model", <<>>) \o <<",">>
  \o KV("auth_token", <<"t0">>) \o <<"}", "]", NL>>
\* a file cut short
CorruptText == <<"[", NL, IND, "{", NL, IND, IND, QUOTE, "name", QUOTE, ":">>
\* the states of the backing file a process can find at its first start
InitialFiles == {NoFile, FileOf(CorruptText), FileOf(LegacyText)}

\* files that are valid JSON but not what _save_presets writes:
\* an element without small_fast_model
MissingKeyText ==
  <<"[", "{">> \o KV("name", <<"x">>) \o <<",">> \o KV("auth_token", <<"t">>)
  \o <<",">> \o KV("base_url", <<"u">>) \o <<",">> \o KV("model", <<"m">>)
  \o <<"}", "]">>
\* a str and a null as elements
NotObjectText == <<"[", QUOTE, "x", QUOTE, ",", SP, "null", "]">>
\* one preset object not wrapped in an array
TopObjectText ==
  <<"{">> \o KV("name", <<"x">>) \o <<",">> \o KV("auth_token", <<"t">>)
  \o <<",">> \o KV("base_url", <<"u">>) \o <<",">> \o KV("model", <<"m">>)
  \o <<",">> \o KV("small_fast_model", <<"s">>) \o <<"}", NL>>
\* an empty object, an empty string, null
EmptyObjectText == <<"{", "}">>
EmptyStringText == <<QUOTE, QUOTE>>
NullText == <<"null", NL>>
\* an element with a sixth key among the five
ExtraKeyText ==
  <<"[", "{">> \o KV("name", <<"x">>) \o <<",">> \o KV("comment", <<"c">>)
  \o <<",">> \o KV("auth_token", <<"t">>) \o <<",">> \o KV("base_url", <<"u">>)
  \o <<",">> \o KV("model", <<"m">>) \o <<",">> \o KV("small_fast_model", <<"s">>)
  \o <<"}", "]", NL>>
OddFiles ==
  {FileOf(MissingKeyText), FileOf(NotObjectText), FileOf(TopObjectText),
   FileOf(EmptyObjectText), FileOf(EmptyStringText), FileOf(NullText),
   FileOf(ExtraKeyText)}

\* the environment a process inherits: some of the four variables set, some not
StartEnv ==
  [n \in EnvNames |->
     IF n = "PATH" THEN Str(<<"/usr/bin">>)
     ELSE IF n \in {"ANTHROPIC_AUTH_TOKEN", "ANTHROPIC_MODEL"} THEN Str(<<"old-", n>>)
     ELSE Unset]
\* the per-user registry environment before the first apply
StartRegistry ==
  [n \in EnvNames |-> IF n = "ANTHROPIC_SMALL_FAST_MODEL" THEN Unset ELSE Str(<<"reg-", n>>)]

(* ------------------------------- state --------------------------------- *)
\* the program that runs: env_manager_darkmode.py.  ConfigPreset and
\* ConfigManager of env_manager_pure_pyqt6.py are the same code but for the name
\* in default_presets.
frontend == "darkmode"

VARIABLES
  platform,   \* sys.platform
  pc,         \* "off": no process; "running": ConfigManager is constructed
  presets,    \* ConfigManager.presets
  file,       \* the backing file
  environ,    \* os.environ of the process
  registry,   \* HKEY_CURRENT_USER\Environment
  lastOp,     \* the last call: what was called, with what, and how it ended
  saved,      \* the collection handed to the last save that completed, if any
  faults,     \* I/O failures injected so far
  ops,        \* calls so far
  app,        \* the two front ends, each an EnvManagerApp with its own store
  user        \* the last thing the user did in the windows

vars == <<platform, pc, presets, file, environ, registry, lastOp, saved,
          faults, ops, app, user>>
\* what a call on a bare ConfigManager leaves alone
gui == <<app, user>>

NoPreset == ConfigPreset(Null, Null, Null, Null, Null)
\* the record of a call: the method, its arguments, the outcome of its I/O,
\* whether it raised, whether it printed a warning, whether the backing file
\* existed when it began, and whether the call before it was the same call with
\* the same arguments
Call(op, index, preset, io, raised, warned, existed) ==
  [op |-> op, index |-> index, preset |-> preset, io |-> io, raised |-> raised,
   warned |-> warned, existed |-> existed,
   repeat |-> (lastOp.op = op /\ lastOp.index = index /\ lastOp.preset = preset)]
NoCall ==
  [op |-> "none", index |-> 0, preset |-> NoPreset, io |-> "ok", raised |-> FALSE,
   warned |-> FALSE, existed |-> FALSE, repeat |-> FALSE]

NotSaved == [valid |-> FALSE, seq |-> <<>>]
Saved(ps) == [valid |-> TRUE, seq |-> ps]
\* what `saved` becomes when a save with the given outcome ran on ps
AfterSave(ps, io) ==
  IF io = "ok" THEN Saved(ps) ELSE IF io = "open" THEN saved ELSE NotSaved

(* ----------------------------- front ends ------------------------------ *)
\* EnvManagerApp of env_manager_darkmode.py (tkinter) and of
\* env_manager_pure_pyqt6.py (PyQt6)
FrontEnds == {"darkmode", "pyqt6"}

\* str.strip(): leading and trailing whitespace removed
RECURSIVE LStrip(_)
LStrip(s) == IF s # <<>> /\ Head(s) \in Ws THEN LStrip(Tail(s)) ELSE s
RECURSIVE RStrip(_)
RStrip(s) ==
  IF s # <<>> /\ s[Len(s)] \in Ws THEN RStrip(SubSeq(s, 1, Len(s) - 1)) ELSE s
strip(v) == Str(LStrip(RStrip(v.s)))
\* all([name, token, url, model, small_model]): no text of the five is ''
AllFilled(f) == \A j \in 1..5 : f[j].s # <<>>

\* what the user saw and what the store was asked during one handler: whether
\* the confirmation prompt was shown, the ConfigManager method called and the
\* preset handed to it, the message box shown at the end ("info", "warning",
\* "error" or "none"), and whether an exception left the handler
Report(asked, called, arg, notice, escaped) ==
  [asked |-> asked, called |-> called, arg |-> arg, notice |-> notice,
   escaped |-> escaped]
NoReport == Report(FALSE, "none", NoPreset, "none", FALSE)

\* one front end: whether its process lives, its ConfigManager's collection,
\* its backing file, its os.environ, its registry, the cards on screen (the
\* presets they were built from; card j carries index j - 1), and the report
\* of its last handler
NoApp ==
  [alive |-> FALSE, presets |-> <<>>, file |-> NoFile, environ |-> StartEnv,
   registry |-> StartRegistry, cards |-> <<>>, did |-> NoReport]
NoApps == [fe \in FrontEnds |-> NoApp]

\* the five texts of the dialog's entries
NoForm == <<Null, Null, Null, Null, Null>>
\* a user action: what was done, the texts typed, the card clicked, the answer
\* to the confirmation prompt, and the outcome of the I/O it led to
Action(act, form, index, answer, io) ==
  [act |-> act, form |-> form, index |-> index, answer |-> answer, io |-> io]
NoAction == Action("none", NoForm, 0, FALSE, "ok")

\* the outcome of the dialog: whether a result was set, the texts of the
\* result, and whether the dialog itself showed the warning
Dialog(result, data, warned) == [result |-> result, data |-> data, warned |-> warned]
\* PresetDialog.cancel / reject: no result
cancel == Dialog(FALSE, NoForm, FALSE)
\* PresetDialog.ok of env_manager_darkmode.py: the texts as typed
ok(form) == Dialog(TRUE, form, FALSE)
\* PresetDialog.accept_dialog of env_manager_pure_pyqt6.py: the texts stripped;
\* with an empty one the dialog warns and stays open, and is then closed
\* without a result
accept_dialog(form) ==
  LET f == [j \in 1..5 |-> strip(form[j])]
  IN  IF AllFilled(f) THEN Dialog(TRUE, f, FALSE) ELSE Dialog(FALSE, NoForm, TRUE)
\* the dialog of front end fe after the user pressed its OK button
Submitted(fe, form) == IF fe = "darkmode" THEN ok(form) ELSE accept_dialog(form)

\* an exception left a handler.  tkinter reports it and its main loop goes on;
\* PyQt6 aborts the process when a slot raises and no sys.excepthook is
\* installed (main() installs none): the collection and os.environ go with it
Escaped(fe, a, did) ==
  IF fe = "darkmode" THEN [a EXCEPT !.did = did]
  ELSE [a EXCEPT !.alive = FALSE, !.presets = <<>>, !.environ = StartEnv,
                 !.cards = <<>>, !.did = did]

\* EnvManagerApp.__init__: ConfigManager() loads the collection and
\* refresh_presets_list / refresh_presets_cards builds the cards
launch(fe, a, rd, io) ==
  LET r == load_presets(a.file, fe, rd, io)
  IN  IF r.raised
      THEN [a EXCEPT !.file = r.file, !.did = Report(FALSE, "load", NoPreset, "none", TRUE)]
      ELSE [a EXCEPT !.alive = TRUE, !.presets = r.presets, !.file = r.file,
                     !.cards = r.presets,
                     !.did = Report(FALSE, "load", NoPreset, "none", FALSE)]

\* the add that both add_new_preset handlers make once they hold five texts
add_from(fe, a, data, io) ==
  LET p == ConfigPreset(data[1], data[2], data[3], data[4], data[5])
      r == add_preset(a.presets, a.file, p, io)
      m == [a EXCEPT !.presets = r.presets, !.file = r.file]
  IN  IF r.raised THEN Escaped(fe, m, Report(FALSE, "add", p, "none", TRUE))
      ELSE [m EXCEPT !.cards = r.presets, !.did = Report(FALSE, "add", p, "info", FALSE)]

\* add_new_preset that hands whatever the dialog returned to the store
add_new_preset_unchecked(fe, a, dlg, io) ==
  IF dlg.result THEN add_from(fe, a, dlg.data, io)
  ELSE [a EXCEPT !.did = Report(FALSE, "none", NoPreset,
                                IF dlg.warned THEN "warning" ELSE "none", FALSE)]

\* EnvManagerApp.add_new_preset, given how the dialog ended.  darkmode checks
\* the texts itself; PyQt6 relies on the dialog's check
add_new_preset(fe, a, dlg, io) ==
  IF fe = "darkmode"
  THEN IF ~dlg.result THEN [a EXCEPT !.did = NoReport]
       ELSE IF AllFilled(dlg.data) THEN add_from(fe, a, dlg.data, io)
       ELSE [a EXCEPT !.did = Report(FALSE, "none", NoPreset, "warning", FALSE)]
  ELSE IF dlg.result THEN add_from(fe, a, dlg.data, io)
       ELSE [a EXCEPT !.did = Report(FALSE, "none", NoPreset,
                                     IF dlg.warned THEN "warning" ELSE "none", FALSE)]

\* the delete made whatever the answer to the prompt
delete_asked_anyway(fe, a, index, answer, io) ==
  LET r == delete_preset(a.presets, a.file, index, io)
      m == [a EXCEPT !.presets = r.presets, !.file = r.file]
  IN  IF r.raised THEN Escaped(fe, m, Report(TRUE, "delete", NoPreset, "none", TRUE))
      ELSE [m EXCEPT !.cards = r.presets,
                     !.did = Report(TRUE, "delete", NoPreset, "info", FALSE)]

\* the delete that both delete_preset handlers make after the prompt
delete_asked(fe, a, index, answer, io) ==
  LET r == delete_preset(a.presets, a.file, index, io)
      m == [a EXCEPT !.presets = r.presets, !.file = r.file]
  IN  IF ~answer THEN [a EXCEPT !.did = Report(TRUE, "none", NoPreset, "none", FALSE)]
      ELSE IF r.raised THEN Escaped(fe, m, Report(TRUE, "delete", NoPreset, "none", TRUE))
      ELSE [m EXCEPT !.cards = r.presets,
                     !.did = Report(TRUE, "delete", NoPreset, "info", FALSE)]

\* EnvManagerApp.delete_preset for the index of a card.  darkmode reads
\* presets[index].name first (IndexError when index >= len); PyQt6 does
\* nothing for an index out of range
delete_clicked(fe, a, index, answer, io) ==
  IF 0 <= index /\ index < Len(a.presets) THEN delete_asked(fe, a, index, answer, io)
  ELSE IF fe = "darkmode"
       THEN Escaped(fe, a, Report(FALSE, "none", NoPreset, "none", TRUE))
       ELSE [a EXCEPT !.did = NoReport]

\* EnvManagerApp.apply_preset for the preset of a card: try / except Exception
apply_clicked(fe, a, plat, preset, out) ==
  LET r == apply_preset(a.environ, a.registry, plat, preset, out)
  IN  IF r.raised
      THEN [a EXCEPT !.did = Report(FALSE, "apply", preset, "error", FALSE)]
      ELSE [a EXCEPT !.environ = r.environ, !.registry = r.registry,
                     !.did = Report(FALSE, "apply", preset, "info", FALSE)]

Init ==
  /\ platform \in {"win32", "linux"}
  /\ pc = "off"
  /\ presets = <<>>
  /\ file \in InitialFiles
  /\ environ = StartEnv
  /\ registry = StartRegistry
  /\ lastOp = NoCall
  /\ saved = NotSaved
  /\ faults = 0
  /\ ops = 0
  /\ app = NoApps
  /\ user = NoAction

\* every call is counted
Tick == ops < MaxOps /\ ops' = ops + 1

\* an injected failure is paid for from the budget
Fault(failed) ==
  /\ failed => faults < MaxFaults
  /\ faults' = IF failed THEN faults + 1 ELSE faults

\* ConfigManager.__init__: the process starts and loads the collection
Start ==
  /\ pc = "off"
  /\ Tick
  /\ \E rd \in {"ok", "fail"}, io \in SaveOutcomes :
       LET r == load_presets(file, frontend, rd, io) IN
       /\ rd = "fail" => file.exists /\ io = "ok"
       /\ io # "ok" => ~file.exists
       /\ Fault(rd = "fail" \/ io # "ok")
       /\ pc' = IF r.raised THEN "off" ELSE "running"
       /\ presets' = r.presets
       /\ file' = r.file
       /\ saved' = IF file.exists THEN saved ELSE AfterSave(default_presets(frontend), io)
       /\ lastOp' = Call("load", 0, NoPreset, IF file.exists THEN rd ELSE io,
                         r.raised, FALSE, file.exists)
  /\ UNCHANGED <<platform, environ, registry, gui>>

\* a caller adds a preset
AddPreset ==
  /\ pc = "running"
  /\ Tick
  /\ \E p \in FormPresets, io \in SaveOutcomes :
       LET r == add_preset(presets, file, p, io) IN
       /\ Fault(io # "ok")
       /\ presets' = r.presets
       /\ file' = r.file
       /\ saved' = AfterSave(r.presets, io)
       /\ lastOp' = Call("add", 0, p, io, r.raised, FALSE, file.exists)
  /\ UNCHANGED <<platform, pc, environ, registry, gui>>

\* the indexes a caller may hold for a collection of length n: every valid one,
\* a negative one and the length
DeleteIndexes(n) == -1..n

\* a caller deletes by index
DeletePreset ==
  /\ pc = "running"
  /\ Tick
  /\ \E index \in DeleteIndexes(Len(presets)), io \in SaveOutcomes :
       LET r == delete_preset(presets, file, index, io)
           inRange == 0 <= index /\ index < Len(presets) IN
       /\ io # "ok" => inRange
       /\ Fault(io # "ok")
       /\ presets' = r.presets
       /\ file' = r.file
       /\ saved' = IF inRange THEN AfterSave(r.presets, io) ELSE saved
       /\ lastOp' = Call("delete", index, NoPreset, io, r.raised, FALSE, file.exists)
  /\ UNCHANGED <<platform, pc, environ, registry, gui>>

\* apply_preset that takes a preset it does not know into the collection
ApplyPreset_adopts ==
  /\ pc = "running"
  /\ Tick
  /\ \E p \in {Staging} \cup {presets[j] : j \in {Len(presets)} \ {0}}, out \in RegOutcomes :
       LET r == apply_preset(environ, registry, platform, p, out) IN
       /\ out # "ok" => platform = "win32"
       /\ Fault(out # "ok")
       /\ environ' = r.environ
       /\ registry' = r.registry
       /\ presets' = IF \E j \in 1..Len(presets) : presets[j] = p
                     THEN presets ELSE Append(presets, p)
       /\ lastOp' = Call("apply", 0, p, out, r.raised, r.warned, file.exists)
  /\ UNCHANGED <<platform, pc, file, saved, gui>>

\* a caller applies a preset: the newest of the collection, or one that may not
\* be in it
ApplyPreset ==
  /\ pc = "running"
  /\ Tick
  /\ \E p \in {Staging} \cup {presets[j] : j \in {Len(presets)} \ {0}}, out \in RegOutcomes :
       LET r == apply_preset(environ, registry, platform, p, out) IN
       /\ out # "ok" => platform = "win32"
       /\ Fault(out # "ok")
       /\ environ' = r.environ
       /\ registry' = r.registry
       /\ lastOp' = Call("apply", 0, p, out, r.raised, r.warned, file.exists)
  /\ UNCHANGED <<platform, pc, presets, file, saved, gui>>

\* the process ends; the collection and the process environment go with it
Exit ==
  /\ pc = "running"
  /\ Tick
  /\ pc' = "off"
  /\ presets' = <<>>
  /\ environ' = StartEnv
  /\ lastOp' = Call("exit", 0, NoPreset, "ok", FALSE, FALSE, file.exists)
  /\ UNCHANGED <<platform, file, registry, saved, faults, gui>>

Next == Start \/ AddPreset \/ DeletePreset \/ ApplyPreset \/ Exit

Spec == Init /\ [][Next]_vars

\* the same program started on a backing file that some other writer left:
\* valid JSON, but not an array of preset objects
LoadInit ==
  /\ platform = "linux"
  /\ pc = "off"
  /\ presets = <<>>
  /\ file \in OddFiles
  /\ environ = StartEnv
  /\ registry = StartRegistry
  /\ lastOp = NoCall
  /\ saved = NotSaved
  /\ faults = 0
  /\ ops = 0
  /\ app = NoApps
  /\ user = NoAction

LoadSpec == LoadInit /\ [][Next]_vars

\* the program started on a backing file that is no JSON
CorruptInit == Init /\ file = FileOf(CorruptText)

CorruptSpec == CorruptInit /\ [][Next]_vars

\* what a second process of the program, run from the same directory on the
\* backing file as it is, leaves in env_config.json after one add or one
\* delete of its own: the collections it can have saved
OtherSaves(f) ==
  LET ps == load_presets(f, frontend, "ok", "ok").presets
  IN  {Append(ps, Staging)} \cup {Pop(ps, 0) : j \in {Len(ps)} \ {0}}

\* while the process runs, a second process of the program saves the file
OtherInstance ==
  /\ pc = "running"
  /\ file.exists
  /\ Tick
  /\ \E ps \in OtherSaves(file) :
       /\ file' = save_presets(file, ps, "ok").file
       /\ saved' = Saved(ps)
  /\ lastOp' = Call("other", 0, NoPreset, "ok", FALSE, FALSE, file.exists)
  /\ UNCHANGED <<platform, pc, presets, environ, registry, faults, gui>>

SharedNext == Next \/ OtherInstance

\* the program where other processes write the backing file too; the registry
\* plays no part in it
SharedInit == Init /\ platform = "linux"

SharedSpec == SharedInit /\ [][SharedNext]_vars

(* ------------------------- the two front ends -------------------------- *)
\* texts a user types into the dialog: all five filled, one left empty, one
\* holding only a blank
Filled == <<Staging.name, Staging.auth_token, Staging.base_url, Staging.model,
            Staging.small_fast_model>>
Blank == [Filled EXCEPT ![4] = Str(<<>>)]
Spaces == [Filled EXCEPT ![2] = Str(<<SP>>)]
Forms == {Filled, Blank, Spaces}

\* the front end as it is if it lives, after the handler ran in it
After(fe, a) == IF app[fe].alive THEN a ELSE app[fe]
SomeAlive == \E fe \in FrontEnds : app[fe].alive

\* both programs are started on the same backing file, environment and registry
Launch ==
  /\ user.act = "none"
  /\ Tick
  /\ \E rd \in {"ok", "fail"}, io \in SaveOutcomes :
       /\ rd = "fail" => file.exists /\ io = "ok"
       /\ io # "ok" => ~file.exists
       /\ Fault(rd = "fail" \/ io # "ok")
       /\ app' = [fe \in FrontEnds |-> launch(fe, [NoApp EXCEPT !.file = file], rd, io)]
       /\ user' = Action("launch", NoForm, 0, FALSE, IF file.exists THEN rd ELSE io)
  /\ UNCHANGED <<platform, pc, presets, file, environ, registry, lastOp, saved>>

\* the user opens the add dialog, types the five texts and presses OK
SubmitForm ==
  /\ SomeAlive
  /\ Tick
  /\ \E form \in Forms, io \in SaveOutcomes :
       /\ io # "ok" => \E fe \in FrontEnds :
                         /\ app[fe].alive
                         /\ Submitted(fe, form).result
                         /\ AllFilled(Submitted(fe, form).data)
       /\ Fault(io # "ok")
       /\ app' = [fe \in FrontEnds |->
                    After(fe, add_new_preset(fe, app[fe], Submitted(fe, form), io))]
       /\ user' = Action("submit", form, 0, FALSE, io)
  /\ UNCHANGED <<platform, pc, presets, file, environ, registry, lastOp, saved>>

\* the user opens the add dialog and cancels it
CancelForm ==
  /\ SomeAlive
  /\ Tick
  /\ app' = [fe \in FrontEnds |-> After(fe, add_new_preset(fe, app[fe], cancel, "ok"))]
  /\ user' = Action("cancel", NoForm, 0, FALSE, "ok")
  /\ UNCHANGED <<platform, pc, presets, file, environ, registry, lastOp, saved, faults>>

\* the cards the user clicks: the first and the newest, where every living
\* front end shows a card
Clickable(index) ==
  /\ \A fe \in FrontEnds : app[fe].alive => index < Len(app[fe].cards)
  /\ \/ index = 0
     \/ \E fe \in FrontEnds : app[fe].alive /\ index = Len(app[fe].cards) - 1
\* what the winreg block does when the user applies: all four written, or the
\* third SetValueEx raises
ClickOutcomes == {"ok", "set3"}

\* the user clicks the delete button of a card and answers the prompt
ClickDelete ==
  /\ SomeAlive
  /\ Tick
  /\ \E index \in 0..(MaxOps - 1), answer \in BOOLEAN, io \in SaveOutcomes :
       /\ Clickable(index)
       /\ io # "ok" => answer /\ \E fe \in FrontEnds :
                                   app[fe].alive /\ index < Len(app[fe].presets)
       /\ Fault(io # "ok")
       /\ app' = [fe \in FrontEnds |->
                    After(fe, delete_clicked(fe, app[fe], index, answer, io))]
       /\ user' = Action("delete", NoForm, index, answer, io)
  /\ UNCHANGED <<platform, pc, presets, file, environ, registry, lastOp, saved>>

\* the user clicks the apply button of a card
ClickApply ==
  /\ SomeAlive
  /\ Tick
  /\ \E index \in 0..(MaxOps - 1), out \in ClickOutcomes :
       /\ Clickable(index)
       /\ out # "ok" => platform = "win32"
       /\ Fault(out # "ok")
       /\ app' = [fe \in FrontEnds |->
                    After(fe, apply_clicked(fe, app[fe], platform,
                                            app[fe].cards[index + 1], out))]
       /\ user' = Action("apply", NoForm, index, FALSE, out)
  /\ UNCHANGED <<platform, pc, presets, file, environ, registry, lastOp, saved>>

GuiNext == Launch \/ SubmitForm \/ CancelForm \/ ClickDelete \/ ClickApply

\* the two programs start where a bare ConfigManager starts, with no backing
\* file or with one that decodes
GuiInit == Init /\ file \in {NoFile, FileOf(LegacyText)}

GuiSpec == GuiInit /\ [][GuiNext]_vars

(* ------------------------------ properties ----------------------------- *)
\* the text json.dump writes for a collection
TextOf(ps) == json_dumps(List([j \in 1..Len(ps) |-> to_dict(ps[j])]), 0)
\* the Python value a collection is serialized from
DictsOf(ps) == List([j \in 1..Len(ps) |-> to_dict(ps[j])])
InRange(index, ps) == 0 <= index /\ index < Len(ps)
\* the collection a call hands to _save_presets, given the collection it leaves
Handed(op, ps) == IF op = "load" THEN default_presets(frontend) ELSE ps
\* where a write of the text can stop: after open(...,'w') truncated the file,
\* half way, and one unit before the end
CutPoints(text) == {0, Len(text) \div 2, Len(text) - 1}
\* the backing file decodes to a list of presets, and to the collection ps
Holds(f, ps) ==
  /\ f.exists
  /\ \A d \in {json_loads(f.text)} :
       /\ d.ok
       /\ d.v.t = "list"
       /\ Len(d.v.a) = Len(ps)
       /\ \A j \in 1..Len(ps) : from_dict(d.v.a[j]) = [ok |-> TRUE, preset |-> ps[j]]
\* a is b with some elements left out, the rest in b's order
RECURSIVE IsSubseq(_, _)
IsSubseq(a, b) ==
  IF a = <<>> THEN TRUE
  ELSE IF b = <<>> THEN FALSE
  ELSE IF Head(a) = Head(b) THEN IsSubseq(Tail(a), Tail(b))
  ELSE IsSubseq(a, Tail(b))
\* how many presets of a collection have the name
NameCount(ps, name) == Cardinality({j \in 1..Len(ps) : ps[j].name = name})
\* a decoded value that is a sequence of objects each carrying all five keys
IsPresetList(v) == v.t = "list" /\ \A j \in 1..Len(v.a) : from_dict(v.a[j]).ok
\* the keys of a decoded object
KeysOf(v) == {v.a[j].s : j \in 1..Len(v.a)}
\* the backing file decodes to an array of objects that have the five keys of
\* to_dict and no other
HasShape(f) ==
  /\ f.exists
  /\ \A d \in {json_loads(f.text)} :
       /\ d.ok
       /\ d.v.t = "list"
       /\ \A j \in 1..Len(d.v.a) :
            /\ d.v.a[j].t = "dict"
            /\ Len(d.v.a[j].a) = 5
            /\ KeysOf(d.v.a[j]) = {Key(FieldNames[k]) : k \in 1..5}

\* C1: a collection handed to a save that completed, and loaded again from the
\* file that save wrote, comes back with the same length, the same order and
\* the same five fields in every element.
C1_RoundTrip ==
  (lastOp.op = "load" /\ lastOp.existed /\ lastOp.io = "ok" /\ saved.valid)
    => /\ Len(presets) = Len(saved.seq)
       /\ \A j \in 1..Len(presets) :
            /\ presets[j].name = saved.seq[j].name
            /\ presets[j].auth_token = saved.seq[j].auth_token
            /\ presets[j].base_url = saved.seq[j].base_url
            /\ presets[j].model = saved.seq[j].model
            /\ presets[j].small_fast_model = saved.seq[j].small_fast_model
\* a process has loaded two presets, one of them full of text that needs
\* escaping, from the file an earlier process saved
C1_Witness ==
  /\ lastOp.op = "load" /\ lastOp.existed /\ lastOp.io = "ok" /\ saved.valid
  /\ Len(presets) = 2 /\ presets[2] = Tricky

\* C2: delete_preset(i) with 0 <= i < n leaves n-1 elements, those before i
\* unchanged and every later one moved down by one; when the save completes
\* the backing file holds the text of that collection.
C2_DeleteShifts ==
  [][(lastOp'.op = "delete" /\ InRange(lastOp'.index, presets))
       => /\ Len(presets') = Len(presets) - 1
          /\ \A j \in 0..(Len(presets') - 1) :
               presets'[j + 1] = IF j < lastOp'.index THEN presets[j + 1] ELSE presets[j + 2]
          /\ ~lastOp'.raised => file' = FileOf(TextOf(presets'))]_vars
\* delete(1) has turned a collection [A, B, C] into [A, C]
C2_Witness ==
  /\ lastOp.op = "delete" /\ lastOp.index = 1 /\ ~lastOp.raised
  /\ ops = 4 /\ Len(presets) = 2 /\ file = FileOf(TextOf(presets))

\* C3: delete_preset with an index outside 0 <= index < length raises nothing,
\* leaves the collection as it is and leaves the backing file as it is.
C3_OutOfRangeNoOp ==
  [][(lastOp'.op = "delete" /\ ~InRange(lastOp'.index, presets))
       => presets' = presets /\ file' = file /\ ~lastOp'.raised]_vars
\* delete(-1) was called on a non-empty collection whose file does not hold it
C3_Witness ==
  /\ lastOp.op = "delete" /\ lastOp.index = -1 /\ Len(presets) = 1
  /\ file = FileOf(CorruptText)

\* C4: a load that found no backing file and returned has returned exactly the
\* default preset, and the file now exists and holds exactly that preset.
C4_MissingFileBootstrap ==
  (lastOp.op = "load" /\ ~lastOp.existed /\ ~lastOp.raised)
    => /\ Len(presets) = 1
       /\ presets = default_presets(frontend)
       /\ file.exists
       /\ json_loads(file.text).ok
       /\ json_loads(file.text).v = DictsOf(default_presets(frontend))
C4_Witness ==
  /\ lastOp.op = "load" /\ ~lastOp.existed /\ ~lastOp.raised
  /\ pc = "running" /\ file.exists

\* C5: a load of a backing file that is not valid JSON returns the default
\* preset, raises nothing and leaves the file as it was.
C5_CorruptFileFallback ==
  [][(lastOp'.op = "load" /\ file.exists /\ ~json_loads(file.text).ok)
       => /\ presets' = default_presets(frontend)
          /\ file' = file
          /\ ~lastOp'.raised]_vars
C5_Witness ==
  /\ lastOp.op = "load" /\ lastOp.existed /\ file = FileOf(CorruptText)
  /\ presets = default_presets(frontend) /\ pc = "running"

\* C6: add_preset(p) makes the collection the old one followed by p, and when
\* the save completes the backing file holds the old sequence followed by p.
C6_AddAppends ==
  [][lastOp'.op = "add"
       => /\ Len(presets') = Len(presets) + 1
          /\ presets'[Len(presets')] = lastOp'.preset
          /\ \A j \in 1..Len(presets) : presets'[j] = presets[j]
          /\ ~lastOp'.raised =>
               /\ file'.exists
               /\ json_loads(file'.text).ok
               /\ json_loads(file'.text).v = DictsOf(Append(presets, lastOp'.preset))]_vars
C6_Witness ==
  /\ lastOp.op = "add" /\ ~lastOp.raised /\ lastOp.preset = Tricky
  /\ Len(presets) = 3 /\ presets[3] = Tricky /\ presets[2] = Staging

\* C7: apply_preset(p) leaves the four ANTHROPIC_* variables of the process
\* holding p's auth_token, base_url, model and small_fast_model, and every
\* other variable as it was.
C7_ApplySetsFour ==
  [][lastOp'.op = "apply"
       => /\ environ'["ANTHROPIC_AUTH_TOKEN"] = lastOp'.preset.auth_token
          /\ environ'["ANTHROPIC_BASE_URL"] = lastOp'.preset.base_url
          /\ environ'["ANTHROPIC_MODEL"] = lastOp'.preset.model
          /\ environ'["ANTHROPIC_SMALL_FAST_MODEL"] = lastOp'.preset.small_fast_model
          /\ \A n \in EnvNames :
               n \notin {AnthropicNames[j] : j \in 1..4} => environ'[n] = environ[n]]_vars
\* "staging" with models m1 and m2 was added and then applied
C7_Witness ==
  /\ lastOp.op = "apply" /\ lastOp.preset = Staging /\ ops = 3
  /\ Len(presets) = 2 /\ presets[2] = Staging
  /\ environ["ANTHROPIC_MODEL"] = Str(<<"m1">>)
  /\ environ["ANTHROPIC_SMALL_FAST_MODEL"] = Str(<<"m2">>)

\* C8: applying a preset a second time in succession, the registry block
\* getting no further than it got the first time, changes neither the process
\* environment nor the registry: the state after two applies is the state
\* after one.
C8_ApplyIdempotent ==
  [][(lastOp.op = "apply" /\ lastOp'.op = "apply" /\ lastOp'.preset = lastOp.preset
      /\ Written(lastOp'.io) <= Written(lastOp.io))
       => environ' = environ /\ registry' = registry]_vars
C8_Witness ==
  /\ lastOp.op = "apply" /\ lastOp.repeat /\ lastOp.io = "ok" /\ platform = "win32"
  /\ registry["ANTHROPIC_MODEL"] = lastOp.preset.model

\* C9: when OpenKey or one of the four SetValueEx calls fails, apply_preset
\* raises nothing, prints the warning, and the four variables of the process
\* hold the preset's values.
C9_RegistryFailureCaught ==
  (lastOp.op = "apply" /\ lastOp.io # "ok")
    => /\ ~lastOp.raised
       /\ lastOp.warned
       /\ environ["ANTHROPIC_AUTH_TOKEN"] = lastOp.preset.auth_token
       /\ environ["ANTHROPIC_BASE_URL"] = lastOp.preset.base_url
       /\ environ["ANTHROPIC_MODEL"] = lastOp.preset.model
       /\ environ["ANTHROPIC_SMALL_FAST_MODEL"] = lastOp.preset.small_fast_model
C9_Witness ==
  /\ lastOp.op = "apply" /\ lastOp.io = "set3" /\ platform = "win32"
  /\ registry["ANTHROPIC_BASE_URL"] = lastOp.preset.base_url
  /\ registry["ANTHROPIC_MODEL"] = StartRegistry["ANTHROPIC_MODEL"]

\* C10: after every add_preset and every in-range delete_preset that did not
\* raise, whatever the file held before, the backing file decodes to exactly
\* the collection in memory.
C10_FileMirrorsCollection ==
  [][((lastOp'.op = "add" \/ (lastOp'.op = "delete" /\ InRange(lastOp'.index, presets)))
      /\ ~lastOp'.raised)
       => /\ file'.exists
          /\ json_loads(file'.text).ok
          /\ load_presets(file', frontend, "ok", "ok").presets = presets']_vars
\* the only preset was deleted and the file holds the empty array
C10_Witness ==
  /\ lastOp.op = "delete" /\ lastOp.index = 0 /\ ~lastOp.raised /\ ops = 2
  /\ presets = <<>> /\ file = FileOf(<<"[", "]">>)

\* C11: a load, whatever the state of the backing file and of the filesystem,
\* raises nothing and returns either the collection the file decodes to or the
\* default preset.
C11_LoadNeverRaises ==
  lastOp.op = "load"
    => /\ ~lastOp.raised
       /\ \/ presets = default_presets(frontend)
          \/ /\ file.exists
             /\ presets = load_presets(file, frontend, "ok", "ok").presets
\* no backing file, and the save of the default preset could not open it: the
\* constructor raised and there is no store
C11_Witness ==
  /\ lastOp.op = "load" /\ ~lastOp.existed /\ lastOp.io = "open" /\ lastOp.raised
  /\ pc = "off" /\ ~file.exists

\* C12: when the write of the backing file fails during add_preset or
\* delete_preset, the store does not catch the error: the call raises to its
\* caller instead of returning.
C12_SaveFailurePropagates ==
  (lastOp.op \in {"add", "delete"} /\ lastOp.io # "ok") => lastOp.raised
\* an add whose save could not open the file has raised, with the new preset
\* in the collection
C12_Witness ==
  /\ lastOp.op = "add" /\ lastOp.io = "open" /\ lastOp.raised
  /\ Len(presets) = 2 /\ presets[2] = lastOp.preset

\* C13: in both front ends add_preset is never called with a preset that has
\* '' in one of its five fields; a form submitted with an empty field, and a
\* cancelled dialog, leave the collection and the backing file as they were.
C13_AddFlowValidation ==
  [][\A fe \in FrontEnds :
       app[fe].alive =>
         /\ (user'.act = "submit" /\ app'[fe].did.called = "add")
              => /\ app'[fe].did.arg.name # Str(<<>>)
                 /\ app'[fe].did.arg.auth_token # Str(<<>>)
                 /\ app'[fe].did.arg.base_url # Str(<<>>)
                 /\ app'[fe].did.arg.model # Str(<<>>)
                 /\ app'[fe].did.arg.small_fast_model # Str(<<>>)
         /\ ((user'.act = "submit" /\ \E j \in 1..5 : user'.form[j] = Str(<<>>))
             \/ user'.act = "cancel")
              => /\ app'[fe].did.called = "none"
                 /\ app'[fe].presets = app[fe].presets
                 /\ app'[fe].file = app[fe].file]_vars
\* a form with the model left empty was submitted in both windows: both
\* warned, and both still hold the two presets they held
C13_Witness ==
  /\ user.act = "submit" /\ user.form = Blank
  /\ \A fe \in FrontEnds :
       /\ app[fe].alive /\ app[fe].did.notice = "warning"
       /\ Len(app[fe].presets) = 2 /\ app[fe].file = FileOf(TextOf(app[fe].presets))

\* C14: in both front ends a click on delete calls delete_preset only after
\* the prompt was shown and answered yes; answered no, the collection and the
\* backing file are as they were and no notice of a deletion is shown.
C14_DeleteNeedsYes ==
  [][\A fe \in FrontEnds :
       (app[fe].alive /\ user'.act = "delete") =>
         /\ app'[fe].did.called = "delete" => app'[fe].did.asked /\ user'.answer
         /\ (app'[fe].did.asked /\ ~user'.answer)
              => /\ app'[fe].did.called = "none"
                 /\ app'[fe].did.notice = "none"
                 /\ app'[fe].presets = app[fe].presets
                 /\ app'[fe].file = app[fe].file
                 /\ app'[fe].cards = app[fe].cards]_vars
\* the user clicked delete on the newest of two cards and answered no: both
\* windows asked, and both still hold two presets
C14_Witness ==
  /\ user.act = "delete" /\ user.index = 1 /\ ~user.answer
  /\ \A fe \in FrontEnds :
       app[fe].alive /\ app[fe].did.asked /\ Len(app[fe].presets) = 2

\* C15: in both front ends an add, delete or apply that fails with an error
\* (a save that raises in add_preset or delete_preset included) ends with an
\* error notice; the error never leaves the handler unreported.
C15_FailuresNoticed ==
  \A fe \in FrontEnds :
    user.act \in {"submit", "cancel", "delete", "apply"}
      => /\ ~app[fe].did.escaped
         /\ (user.io # "ok" /\ app[fe].did.called \in {"add", "delete"})
              => app[fe].did.notice = "error"
\* the save of an add failed: the error left add_new_preset in both front
\* ends, no message box was shown, and the PyQt6 process is gone
C15_Witness ==
  /\ user.act = "submit" /\ user.io = "open"
  /\ \A fe \in FrontEnds :
       /\ app[fe].did.called = "add" /\ app[fe].did.escaped
       /\ app[fe].did.notice = "none"
  /\ app["darkmode"].alive /\ ~app["pyqt6"].alive

\* C16: started on the same backing file and environment and driven by the
\* same user actions, the two front ends hold the same collection, the same
\* backing-file content and the same four ANTHROPIC_* values.
C16_FrontEndsAgree ==
  user.act # "none"
    => /\ app["darkmode"].presets = app["pyqt6"].presets
       /\ app["darkmode"].file = app["pyqt6"].file
       /\ \A j \in 1..4 :
            app["darkmode"].environ[AnthropicNames[j]]
              = app["pyqt6"].environ[AnthropicNames[j]]
\* both started on the same decodable file and agreed; then a form whose
\* token is one blank was submitted: darkmode added it, PyQt6 refused it
C16_Witness ==
  /\ user.act = "submit" /\ user.form = Spaces /\ ops = 2
  /\ app["darkmode"].alive /\ app["pyqt6"].alive
  /\ Len(app["darkmode"].presets) = 2 /\ Len(app["pyqt6"].presets) = 1
  /\ app["darkmode"].presets[1] = app["pyqt6"].presets[1]
  /\ app["darkmode"].file # app["pyqt6"].file

\* C17: a load of a backing file that is valid JSON but no array of objects
\* with all five keys (an element lacks a key, an element is no object, the
\* top-level value is no array) returns the default preset, raises nothing and
\* does not write the file.
C17_NotPresetListFallsBack ==
  [][(lastOp'.op = "load" /\ lastOp'.io = "ok" /\ file.exists
      /\ json_loads(file.text).ok /\ ~IsPresetList(json_loads(file.text).v))
       => /\ presets' = default_presets(frontend)
          /\ file' = file
          /\ ~lastOp'.raised]_vars
\* the file held {} and the load returned: the collection is empty, not the
\* default preset
C17_Witness ==
  /\ lastOp.op = "load" /\ lastOp.io = "ok" /\ lastOp.existed /\ ~lastOp.raised
  /\ file = FileOf(EmptyObjectText) /\ pc = "running" /\ presets = <<>>

\* C18: no add and no delete reorders presets: after an add the old collection
\* is the new one with one element left out, after a delete the new collection
\* is the old one with one element left out, the others in their order; every
\* other call on a running store leaves the collection as it is; and after an
\* add or delete whose save completed the file lists the presets in the order
\* of the collection.
C18_OrderPreserved ==
  [][/\ lastOp'.op = "add"
          => Len(presets') = Len(presets) + 1 /\ IsSubseq(presets, presets')
     /\ (lastOp'.op = "delete" /\ InRange(lastOp'.index, presets))
          => Len(presets') = Len(presets) - 1 /\ IsSubseq(presets', presets)
     /\ (lastOp'.op = "apply" \/ (lastOp'.op = "delete" /\ ~InRange(lastOp'.index, presets)))
          => presets' = presets
     /\ (lastOp'.op \in {"add", "delete"} /\ ~lastOp'.raised /\ lastOp'.io = "ok"
         /\ (lastOp'.op = "delete" => InRange(lastOp'.index, presets)))
          => json_loads(file'.text) = Done(DictsOf(presets'), Len(file'.text) + 1)]_vars
\* the first of three different presets was deleted: the other two are left,
\* in their order, in the collection and in the file
C18_Witness ==
  /\ lastOp.op = "delete" /\ lastOp.index = 0 /\ ~lastOp.raised /\ ops = 4
  /\ presets = <<Staging, Tricky>> /\ file = FileOf(TextOf(<<Staging, Tricky>>))

\* C19: add_preset of a preset whose name is already in the collection appends
\* it all the same: every old entry stays where it was and the collection
\* holds one more entry of that name; an in-range delete of an entry whose
\* name occurs more than once removes that entry only and leaves the others of
\* that name in place.
C19_DuplicatesPermitted ==
  [][/\ (lastOp'.op = "add" /\ NameCount(presets, lastOp'.preset.name) >= 1)
          => /\ presets' = Append(presets, lastOp'.preset)
             /\ NameCount(presets', lastOp'.preset.name)
                  = NameCount(presets, lastOp'.preset.name) + 1
             /\ lastOp'.raised <=> lastOp'.io # "ok"
     /\ (lastOp'.op = "delete" /\ InRange(lastOp'.index, presets)
         /\ NameCount(presets, presets[lastOp'.index + 1].name) >= 2)
          => /\ NameCount(presets', presets[lastOp'.index + 1].name)
                  = NameCount(presets, presets[lastOp'.index + 1].name) - 1
             /\ \A j \in 1..Len(presets) :
                  j # lastOp'.index + 1
                    => presets'[IF j <= lastOp'.index THEN j ELSE j - 1] = presets[j]]_vars
\* "staging" was in the file, Staging was added twice, and the first Staging
\* was deleted: the file's "staging" and the second Staging are still there
C19_Witness ==
  /\ lastOp.op = "delete" /\ lastOp.index = 1 /\ ~lastOp.raised /\ ops = 4
  /\ Len(presets) = 2 /\ presets[2] = Staging
  /\ presets[1].name = Staging.name /\ presets[1] # Staging

\* C20: the registry is written only where sys.platform is 'win32': there, an
\* apply_preset(p) whose winreg block completed leaves the four ANTHROPIC_*
\* values of the registry equal to p's auth_token, base_url, model and
\* small_fast_model and every other value as it was; anywhere else no call
\* changes the registry.
C20_RegistryOnlyOnWin32 ==
  [][/\ platform # "win32" => registry' = registry
     /\ (lastOp'.op = "apply" /\ platform = "win32" /\ lastOp'.io = "ok")
          => /\ ~lastOp'.raised /\ ~lastOp'.warned
             /\ registry'["ANTHROPIC_AUTH_TOKEN"] = lastOp'.preset.auth_token
             /\ registry'["ANTHROPIC_BASE_URL"] = lastOp'.preset.base_url
             /\ registry'["ANTHROPIC_MODEL"] = lastOp'.preset.model
             /\ registry'["ANTHROPIC_SMALL_FAST_MODEL"] = lastOp'.preset.small_fast_model
             /\ registry'["PATH"] = registry["PATH"]]_vars
\* on win32 Staging was applied and the registry, which had no small fast
\* model, holds Staging's four values
C20_Witness ==
  /\ platform = "win32" /\ lastOp.op = "apply" /\ lastOp.io = "ok"
  /\ lastOp.preset = Staging
  /\ registry["ANTHROPIC_SMALL_FAST_MODEL"] = Str(<<"m2">>)
  /\ registry["ANTHROPIC_AUTH_TOKEN"] = Str(<<"tok">>)
  /\ registry["PATH"] = StartRegistry["PATH"]

\* C21: a save that stops after the truncation and before the end of the
\* write leaves a backing file that decodes to no collection at all, neither
\* the previous nor the new one; a load of that file raises nothing, returns
\* the default preset and leaves the file as it is.  The same holds wherever
\* the write of that text stops.
C21_SaveNotAtomic ==
  [][(lastOp'.op \in {"add", "delete", "load"} /\ lastOp'.io = "cut")
       => \A text \in {TextOf(Handed(lastOp'.op, presets'))} :
          /\ lastOp'.raised
          /\ file' = FileOf(SubSeq(text, 1, Len(text) \div 2))
          /\ \A k \in CutPoints(text) :
               \A f \in {FileOf(SubSeq(text, 1, k))} :
               /\ ~json_loads(f.text).ok
               /\ load_presets(f, frontend, "ok", "ok")
                    = [presets |-> default_presets(frontend), file |-> f,
                       raised |-> FALSE]]_vars
\* Staging was added to the file's preset, the write stopped half way and the
\* process ended; the next process has loaded the default preset from what is
\* left of the file
C21_Witness ==
  /\ lastOp.op = "load" /\ lastOp.existed /\ lastOp.io = "ok" /\ ops = 4
  /\ presets = default_presets(frontend) /\ pc = "running"
  /\ \E first \in {load_presets(FileOf(LegacyText), frontend, "ok", "ok").presets} :
       LET text == TextOf(Append(first, Staging)) IN
       file = FileOf(SubSeq(text, 1, Len(text) \div 2))

\* C22 as stated: when the save of an add_preset or delete_preset raises, the
\* collection has the mutation and the backing file does not hold that
\* collection.
C22_FailedSaveFileDiffers ==
  [][(lastOp'.op \in {"add", "delete"} /\ lastOp'.raised)
       => presets' # presets /\ ~Holds(file', presets')]_vars
\* C22: when the save of an add_preset or delete_preset raises, the collection
\* has the mutation all the same (the preset appended, the element removed)
\* and the call has not written it: the backing file is as it was before the
\* call or is undecodable; if the file held the collection before the call, it
\* does not hold the collection after it.
C22_NoRollback ==
  [][(lastOp'.op \in {"add", "delete"} /\ lastOp'.raised)
       => /\ lastOp'.op = "add" => presets' = Append(presets, lastOp'.preset)
          /\ lastOp'.op = "delete" => presets' = Pop(presets, lastOp'.index)
          /\ lastOp'.io = "open" => file' = file
          /\ lastOp'.io = "cut" => ~json_loads(file'.text).ok
          /\ Holds(file, presets) => ~Holds(file', presets')]_vars
\* the save of an add could not open the file: the collection has three
\* presets, the file still holds the two it held
C22_Witness ==
  /\ lastOp.op = "add" /\ lastOp.io = "open" /\ lastOp.raised
  /\ Len(presets) = 3 /\ presets[3] = lastOp.preset
  /\ Holds(file, SubSeq(presets, 1, 2))

\* C23: in both front ends, whenever a click on a card's delete button is
\* handled, the index the card carries is in range and the preset at that
\* index of the collection is the preset the card shows.
C23_NoStaleIndex ==
  [][\A fe \in FrontEnds :
       (app[fe].alive /\ user'.act = "delete")
         => /\ user'.index < Len(app[fe].presets)
            /\ app[fe].presets[user'.index + 1] = app[fe].cards[user'.index + 1]]_vars
\* in the tkinter window the save of a confirmed delete failed, the cards were
\* not rebuilt, and the user clicked delete on the last card: its index is the
\* length of the collection, and presets[index] raised IndexError
C23_Witness ==
  /\ user.act = "delete" /\ app["darkmode"].alive
  /\ user.index = Len(app["darkmode"].presets)
  /\ Len(app["darkmode"].cards) = Len(app["darkmode"].presets) + 1
  /\ app["darkmode"].did = Report(FALSE, "none", NoPreset, "none", TRUE)

C25_EmptyIsNotDefault ==
  [][/\ (lastOp'.op = "delete" /\ InRange(lastOp'.index, presets) /\ ~lastOp'.raised
         /\ Len(presets) = 1)
          => presets' = <<>> /\ file' = FileOf(<<"[", "]">>)
     /\ (lastOp'.op = "load" /\ lastOp'.io = "ok" /\ file.exists)
          => \A d \in {json_loads(file.text)} :
               (d.ok /\ IsPresetList(d.v))
                 => /\ Holds(file, presets')
                    /\ Len(presets') = Len(d.v.a)
                    /\ file' = file
                    /\ ~lastOp'.raised
                    /\ pc' = "running"]_vars
\* a process deleted its only preset and ended; the next process has loaded
\* the empty collection from the empty array and left the file alone
C25_Witness ==
  /\ lastOp.op = "load" /\ lastOp.existed /\ lastOp.io = "ok" /\ ops = 4
  /\ pc = "running" /\ presets = <<>> /\ file = FileOf(<<"[", "]">>)
  /\ saved = Saved(<<>>)

\* C26: apply_preset, of a preset of the collection or of any other, with the
\* registry writes completing or not, leaves the collection and the backing
\* file as they were; add_preset and delete_preset, completing or raising,
\* leave every variable of the process environment and of the persistent
\* environment as it was.
C26_Frame ==
  [][/\ lastOp'.op = "apply" => presets' = presets /\ file' = file /\ saved' = saved
     /\ lastOp'.op \in {"add", "delete"} => environ' = environ /\ registry' = registry]_vars
\* a preset that is not in the collection has been applied: the environment
\* has its values, the collection and the file do not have the preset
C26_Witness ==
  /\ lastOp.op = "apply" /\ lastOp.preset = Staging
  /\ presets # <<>> /\ \A j \in 1..Len(presets) : presets[j] # Staging
  /\ file = FileOf(TextOf(presets))
  /\ environ["ANTHROPIC_AUTH_TOKEN"] = Staging.auth_token

\* C27: when apply_preset has opened the persistent store or failed to, the
\* process environment holds all four values of the preset; the persistent
\* values are written in the order AUTH_TOKEN, BASE_URL, MODEL,
\* SMALL_FAST_MODEL and nothing is taken back: when the k-th write fails (or
\* the store does not open, k = 1) the first k-1 persistent values are the
\* preset's and the others are the values from before the call.
C27_WritesInOrderNoRollback ==
  [][(lastOp'.op = "apply" /\ platform = "win32")
       => \A k \in {Written(lastOp'.io) + 1} :
          /\ \A j \in 1..4 : environ'[AnthropicNames[j]] = FieldOf(lastOp'.preset, j)
          /\ \A j \in 1..4 :
               registry'[AnthropicNames[j]] =
                 IF j < k THEN FieldOf(lastOp'.preset, j) ELSE registry[AnthropicNames[j]]
          /\ registry'["PATH"] = registry["PATH"]
          /\ lastOp'.warned = (k <= 4)
          /\ ~lastOp'.raised]_vars
\* the third persistent write has failed: two persistent values are the
\* preset's, two are the old ones, the process environment has all four
C27_Witness ==
  /\ lastOp.op = "apply" /\ lastOp.io = "set3" /\ lastOp.warned
  /\ registry["ANTHROPIC_AUTH_TOKEN"] = lastOp.preset.auth_token
  /\ registry["ANTHROPIC_BASE_URL"] = lastOp.preset.base_url
  /\ registry["ANTHROPIC_MODEL"] = StartRegistry["ANTHROPIC_MODEL"]
  /\ registry["ANTHROPIC_MODEL"] # lastOp.preset.model
  /\ registry["ANTHROPIC_SMALL_FAST_MODEL"] = StartRegistry["ANTHROPIC_SMALL_FAST_MODEL"]
  /\ registry["ANTHROPIC_SMALL_FAST_MODEL"] # lastOp.preset.small_fast_model
  /\ \A j \in 1..4 : environ[AnthropicNames[j]] = FieldOf(lastOp.preset, j)

\* C28: the backing file is read only when the process starts; while it runs
\* the collection changes only by add_preset, which appends to the collection
\* in memory, and by delete_preset with an index in range, which pops from it;
\* a write of the file by another process changes nothing in the collection,
\* and the next save of this process that completes leaves in the file the
\* text of this process's collection and nothing of what the other wrote.
C28_LoadedOnce ==
  [][/\ lastOp'.op = "load" => pc = "off"
     /\ (pc = "running" /\ pc' = "running" /\ presets' # presets)
          => \/ lastOp'.op = "add"
             \/ lastOp'.op = "delete" /\ InRange(lastOp'.index, presets)
     /\ lastOp'.op = "add" => presets' = Append(presets, lastOp'.preset)
     /\ (lastOp'.op = "delete" /\ InRange(lastOp'.index, presets))
          => presets' = Pop(presets, lastOp'.index)
     /\ lastOp'.op = "other" => presets' = presets /\ file' # file
     /\ (lastOp.op = "other" /\ lastOp'.op \in {"add", "delete"} /\ ~lastOp'.raised
         /\ (lastOp'.op = "delete" => InRange(lastOp'.index, presets)))
          => /\ file' = FileOf(TextOf(presets'))
             /\ saved' = Saved(presets')]_vars
\* another process has just written the file: it no longer holds the
\* collection of this process, which is as it was loaded, and this process has
\* calls left to make
C28_Witness ==
  /\ lastOp.op = "other" /\ pc = "running" /\ ops < MaxOps
  /\ presets = default_presets(frontend)
  /\ ~Holds(file, presets)
  /\ saved # Saved(presets)

\* C29: after every call that saved and whose save completed (an add, a
\* delete with an index in range, a load that found no file) the backing file
\* decodes to an array of objects with the five keys name, auth_token,
\* base_url, model, small_fast_model and no other; a load of a file whose
\* element has a sixth key returns the preset of the five values and leaves
\* the file as it is, and the next save that completes leaves a file of five
\* keys per element.
C29_FiveKeys ==
  [][/\ (/\ \/ lastOp'.op = "add"
            \/ lastOp'.op = "delete" /\ InRange(lastOp'.index, presets)
            \/ lastOp'.op = "load" /\ ~file.exists
         /\ ~lastOp'.raised)
          => HasShape(file') /\ file' = FileOf(TextOf(presets'))
     /\ (lastOp'.op = "load" /\ lastOp'.io = "ok" /\ file = FileOf(ExtraKeyText))
          => /\ presets' = <<ConfigPreset(Str(<<"x">>), Str(<<"t">>), Str(<<"u">>),
                                          Str(<<"m">>), Str(<<"s">>))>>
             /\ ~lastOp'.raised
             /\ pc' = "running"
             /\ file' = file
             /\ ~HasShape(file')]_vars
\* the preset of the six-key file was loaded and a save has completed since:
\* the file has the preset with five keys and the sixth is gone
C29_Witness ==
  /\ lastOp.op = "add" /\ ~lastOp.raised /\ Len(presets) = 2
  /\ presets[1] = ConfigPreset(Str(<<"x">>), Str(<<"t">>), Str(<<"u">>),
                               Str(<<"m">>), Str(<<"s">>))
  /\ HasShape(file)
  /\ \A j \in 1..Len(file.text) : file.text[j] # "comment"

====
